---- MODULE Spec2Model ----
(***************************************************************************)
(* A model of numru's array construction macros, src/src/macros.rs:        *)
(*   arr!   (rank 1, 2 and 3 literals: flatten + shape inference)          *)
(*   zeros! (1, 2 or 3 explicit dimensions; 4 or more dimensions panic)    *)
(* Every macro invocation is one action: it evaluates the whole expansion  *)
(* of the matching arm, the calls of try_into, Array::new and unwrap       *)
(* included.  An invocation starts from the idle state and ends either     *)
(* with an Array value or with a panic.                                    *)
(***************************************************************************)
EXTENDS Integers, Sequences, FiniteSets, TLC

\* ---------------------------------------------------------------- bounds
\* rank-1 literals: 1..MaxLen scalars, each in 0..MaxVal
MaxLen == 4
MaxVal == 1
\* rank-2 literals: 1..MaxRows rows of 1..MaxCols scalars each
MaxRows == 3
MaxCols == 3
\* rank-3 literals: 1..MaxDepth3 blocks of 1..MaxRows3 rows of 1..MaxCols3 scalars
MaxDepth3 == 2
MaxRows3 == 2
MaxCols3 == 2
\* zeros!: each dimension expression evaluates to a value in 0..MaxDim,
\* and the catch-all arm is tried with 4..MaxDimArgs dimensions
MaxDim == 3
MaxDimArgs == 5

VARIABLES
    pc,          \* "idle" | "returned" | "panicked"
    macro,       \* the arm that was expanded
    input,       \* the literal (arr!) or the dimension list (zeros!)
    ty,          \* the element type
    allocated,   \* whether the flat data buffer was built
    data,        \* the flat data buffer handed to Array::new
    shape,       \* the shape vector (Vec<usize>) of the expansion
    newCalls,    \* number of calls of Array::new in this invocation
    newResult,   \* what Array::new returned: "none" | "Ok" | "ShapeMismatch"
    panic,       \* the panic raised, [msg, arg]
    hasArray,    \* whether the invocation evaluated to an Array
    arrayData,   \* the Array's data
    arrayShape   \* the Array's shape

vars == <<pc, macro, input, ty, allocated, data, shape, newCalls, newResult,
          panic, hasArray, arrayData, arrayShape>>

\* ------------------------------------------------------------ input sets
Elems == 0..MaxVal

\* zeros!'s $ty: element types with a Default impl
Types == {"i32", "f64"}

SeqsUpTo(S, n) == UNION {[1..k -> S] : k \in 1..n}

\* A literal's leaves are labelled by their coordinates (block, row, column):
\* flatten and flatten_3d are generic in T and only clone the leaves, so a
\* literal with pairwise distinct leaves is the general case.
Radix == MaxCols + MaxCols3 + MaxRows3 + 1
Leaf(d, r, c) == (d * Radix + r) * Radix + c

\* rank-1: every non-empty sequence of scalars ($($elem:expr),+)
Literals1 == SeqsUpTo(Elems, MaxLen)

\* rank-2: every non-empty sequence of non-empty rows, jagged ones included
RowLens2 == SeqsUpTo(1..MaxCols, MaxRows)
Literal2(lens) == [i \in 1..Len(lens) |-> [j \in 1..lens[i] |-> Leaf(0, i, j)]]
Literals2 == {Literal2(lens) : lens \in RowLens2}

\* rank-3: every non-empty sequence of non-empty blocks of non-empty rows
BlockLens3 == SeqsUpTo(1..MaxCols3, MaxRows3)
RowLens3 == SeqsUpTo(BlockLens3, MaxDepth3)
Literal3(lens) ==
    [d \in 1..Len(lens) |->
        [r \in 1..Len(lens[d]) |->
            [c \in 1..lens[d][r] |-> Leaf(d, r, c)]]]
Literals3 == {Literal3(lens) : lens \in RowLens3}

Dims == 0..MaxDim
DimLists == UNION {[1..k -> Dims] : k \in 4..MaxDimArgs}

\* ------------------------------------------------------- pure functions
NoPanic == [msg |-> "", arg |-> 0]

RECURSIVE product_sum(_)
\* a size computed as the sum of the dimensions
product_sum(s) == IF s = <<>> THEN 0 ELSE Head(s) + product_sum(Tail(s))

RECURSIVE product_nonzero(_)
\* a size that skips the dimensions equal to 0
product_nonzero(s) ==
    IF s = <<>> THEN 1
    ELSE (IF Head(s) = 0 THEN 1 ELSE Head(s)) * product_nonzero(Tail(s))

RECURSIVE product(_)
\* shape.iter().product::<usize>()
product(s) == IF s = <<>> THEN 1 ELSE Head(s) * product(Tail(s))

\* <$ty as Default>::default() of a numeric type
Default(t) == 0

\* vec![zero_value; size]
VecRepeat(v, n) == [i \in 1..n |-> v]

RECURSIVE flatten_rev(_)
\* rows concatenated last to first
flatten_rev(nested) ==
    IF nested = <<>> THEN <<>> ELSE flatten_rev(Tail(nested)) \o Head(nested)

RECURSIVE flatten(_)
\* nested.iter().flat_map(|inner| inner.clone()).collect()
flatten(nested) ==
    IF nested = <<>> THEN <<>> ELSE Head(nested) \o flatten(Tail(nested))

RECURSIVE flat_map_rows(_)
\* inner.iter().flat_map(|v| v.clone())
flat_map_rows(inner) ==
    IF inner = <<>> THEN <<>> ELSE Head(inner) \o flat_map_rows(Tail(inner))

RECURSIVE flatten_3d(_)
\* nested.iter().flat_map(|inner| inner.iter().flat_map(|v| v.clone())).collect()
flatten_3d(nested) ==
    IF nested = <<>> THEN <<>>
    ELSE flat_map_rows(Head(nested)) \o flatten_3d(Tail(nested))

\* the column count taken from the last row
get_shape_last(nested) ==
    LET shape0 == <<Len(nested)>>
    IN IF nested # <<>> THEN Append(shape0, Len(nested[Len(nested)])) ELSE shape0

get_shape(nested) ==
    LET shape0 == <<Len(nested)>>
    IN IF nested # <<>> THEN Append(shape0, Len(Head(nested))) ELSE shape0

\* the row and column counts pushed in the wrong order
get_shape_3d_swapped(nested) ==
    LET shape0 == <<Len(nested)>>
    IN IF nested # <<>>
       THEN LET first == Head(nested)
            IN IF first # <<>>
               THEN Append(Append(shape0, Len(Head(first))), Len(first))
               ELSE Append(shape0, Len(first))
       ELSE shape0

\* the innermost dimension never pushed
get_shape_3d_short(nested) ==
    LET shape0 == <<Len(nested)>>
    IN IF nested # <<>> THEN Append(shape0, Len(Head(nested))) ELSE shape0

get_shape_3d(nested) ==
    LET shape0 == <<Len(nested)>>
    IN IF nested # <<>>
       THEN LET first == Head(nested)
                shape1 == Append(shape0, Len(first))
            IN IF first # <<>> THEN Append(shape1, Len(Head(first))) ELSE shape1
       ELSE shape0

\* the rank-1 shape off by one
shape_1d_off(d) == <<Len(d) - 1>>

\* rank-1 arm: let data = vec![...]; let shape = vec![data.len()];
vec_1d(elems) == elems
shape_1d(d) == <<Len(d)>>

\* Vec<usize> -> [usize; N]: Ok when the lengths agree, Err(vec) otherwise
try_into(v, n) == [ok |-> Len(v) = n, val |-> v]

\* Array::new(data, shape) -> Result<Array, ShapeMismatch>: the constructor's
\* length check, len(data) == product(shape)
RECURSIVE NumElements(_)
NumElements(s) == IF s = <<>> THEN 1 ELSE Head(s) * NumElements(Tail(s))
ArrayNew(d, s) == IF Len(d) = NumElements(s) THEN "Ok" ELSE "ShapeMismatch"

\* the messages of Result::unwrap() on an Err value
UnwrapTryIntoMsg == "called Result::unwrap() on an Err value: Vec"
UnwrapMismatchMsg == "called Result::unwrap() on an Err value: ShapeMismatch"

\* an Array built from the pair whatever Array::new answered
Construct_unchecked(d, s, n) ==
    [pc |-> "returned", newCalls |-> 1, newResult |-> ArrayNew(d, s),
     panic |-> NoPanic, hasArray |-> TRUE, arrayData |-> d, arrayShape |-> s]

\* Array::new's Err replaced by an empty Array (unwrap_or_default)
Construct_or_default(d, s, n) ==
    IF ArrayNew(d, s) = "Ok"
    THEN [pc |-> "returned", newCalls |-> 1, newResult |-> "Ok",
          panic |-> NoPanic, hasArray |-> TRUE, arrayData |-> d, arrayShape |-> s]
    ELSE [pc |-> "returned", newCalls |-> 1, newResult |-> "ShapeMismatch",
          panic |-> NoPanic, hasArray |-> TRUE, arrayData |-> <<>>, arrayShape |-> <<>>]

\* $crate::Array::new(data, Shape::new(Ix::<N>::new(shape.try_into().unwrap()))).unwrap()
\* The arguments are evaluated first: a failed try_into panics in its unwrap
\* before Array::new is called.  Array::new's Err is unwrapped into a panic.
Construct(d, s, n) ==
    LET ix == try_into(s, n)
    IN IF ~ix.ok
       THEN [pc |-> "panicked", newCalls |-> 0, newResult |-> "none",
             panic |-> [msg |-> UnwrapTryIntoMsg, arg |-> 0],
             hasArray |-> FALSE, arrayData |-> <<>>, arrayShape |-> <<>>]
       ELSE IF ArrayNew(d, ix.val) = "Ok"
            THEN [pc |-> "returned", newCalls |-> 1, newResult |-> "Ok",
                  panic |-> NoPanic,
                  hasArray |-> TRUE, arrayData |-> d, arrayShape |-> ix.val]
            ELSE [pc |-> "panicked", newCalls |-> 1, newResult |-> ArrayNew(d, ix.val),
                  panic |-> [msg |-> UnwrapMismatchMsg, arg |-> 0],
                  hasArray |-> FALSE, arrayData |-> <<>>, arrayShape |-> <<>>]

UnsupportedMsg == "Unsupported number of dimensions (only 1D, 2D, and 3D are supported): {}"

\* the message naming the first dimension instead of their number
unsupported_first(s) ==
    [pc |-> "panicked", newCalls |-> 0, newResult |-> "none",
     panic |-> [msg |-> UnsupportedMsg, arg |-> Head(s)],
     hasArray |-> FALSE, arrayData |-> <<>>, arrayShape |-> <<>>]

\* the catch-all arm of zeros!
unsupported(s) ==
    LET dimension == Len(s)
    IN [pc |-> "panicked", newCalls |-> 0, newResult |-> "none",
        panic |-> [msg |-> UnsupportedMsg, arg |-> dimension],
        hasArray |-> FALSE, arrayData |-> <<>>, arrayShape |-> <<>>]

Finish(r) ==
    /\ pc' = r.pc
    /\ newCalls' = r.newCalls
    /\ newResult' = r.newResult
    /\ panic' = r.panic
    /\ hasArray' = r.hasArray
    /\ arrayData' = r.arrayData
    /\ arrayShape' = r.arrayShape

\* ------------------------------------------------------------------ Init
Init ==
    /\ pc = "idle"
    /\ macro = "none"
    /\ input = <<>>
    /\ ty = "T"
    /\ allocated = FALSE
    /\ data = <<>>
    /\ shape = <<>>
    /\ newCalls = 0
    /\ newResult = "none"
    /\ panic = NoPanic
    /\ hasArray = FALSE
    /\ arrayData = <<>>
    /\ arrayShape = <<>>

\* --------------------------------------------------------------- actions
\* An invocation is expanded from the idle state; its arguments are drawn by
\* the action.

\* the rank-1 arm's expansion
arr_1d(elems) ==
    LET d == vec_1d(elems)
        s == shape_1d(d)
    IN /\ macro' = "arr1" /\ input' = elems /\ ty' = "T"
       /\ allocated' = TRUE /\ data' = d /\ shape' = s
       /\ Finish(Construct(d, s, 1))

\* the rank-2 arm's expansion
arr_2d(lit) ==
    LET temp == lit
        d == flatten(temp)
        s == get_shape(temp)
    IN /\ macro' = "arr2" /\ input' = lit /\ ty' = "T"
       /\ allocated' = TRUE /\ data' = d /\ shape' = s
       /\ Finish(Construct(d, s, 2))

\* the rank-3 arm's expansion
arr_3d(lit) ==
    LET temp_3d == lit
        data_3d == flatten_3d(temp_3d)
        shape_3d == get_shape_3d(temp_3d)
    IN /\ macro' = "arr3" /\ input' = lit /\ ty' = "T"
       /\ allocated' = TRUE /\ data' = data_3d /\ shape' = shape_3d
       /\ Finish(Construct(data_3d, shape_3d, 3))

\* the body shared by the three supported arms of zeros!
zeros_fill(t, dims, n) ==
    LET s == dims
        size == product(s)
        zero_value == Default(t)
        d == VecRepeat(zero_value, size)
    IN /\ input' = dims /\ ty' = t
       /\ allocated' = TRUE /\ data' = d /\ shape' = s
       /\ Finish(Construct(d, s, n))

\* the catch-all arm's expansion
zeros_nd(t, dims) ==
    /\ macro' = "zerosN" /\ input' = dims /\ ty' = t
    /\ allocated' = FALSE /\ data' = <<>> /\ shape' = dims
    /\ Finish(unsupported(dims))

\* arr![e1, e2, ...]
Arr1 ==
    /\ pc = "idle"
    /\ \E elems \in Literals1 : arr_1d(elems)

\* arr![[..], [..], ...]
Arr2 ==
    /\ pc = "idle"
    /\ \E lit \in Literals2 : arr_2d(lit)

\* arr![[[..], ..], [[..], ..], ...]
Arr3 ==
    /\ pc = "idle"
    /\ \E lit \in Literals3 : arr_3d(lit)

\* zeros!(ty, dim)
Zeros1 ==
    /\ pc = "idle"
    /\ macro' = "zeros1"
    /\ \E t \in Types, dim \in Dims : zeros_fill(t, <<dim>>, 1)

\* zeros!(ty, dim1, dim2)
Zeros2 ==
    /\ pc = "idle"
    /\ macro' = "zeros2"
    /\ \E t \in Types, dim1, dim2 \in Dims : zeros_fill(t, <<dim1, dim2>>, 2)

\* zeros!(ty, dim1, dim2, dim3)
Zeros3 ==
    /\ pc = "idle"
    /\ macro' = "zeros3"
    /\ \E t \in Types, dim1, dim2, dim3 \in Dims :
           zeros_fill(t, <<dim1, dim2, dim3>>, 3)

\* zeros!(ty, d1, d2, d3, d4, ...): four or more dimensions
ZerosN ==
    /\ pc = "idle"
    /\ \E t \in Types, dims \in DimLists : zeros_nd(t, dims)

Next ==
    \/ Arr1
    \/ Arr2
    \/ Arr3
    \/ Zeros1
    \/ Zeros2
    \/ Zeros3
    \/ ZerosN

Spec == Init /\ [][Next]_vars

\* ---------------------------------------------------------------- claims
ArrMacros == {"arr1", "arr2", "arr3"}
ZerosMacros == {"zeros1", "zeros2", "zeros3"}

RECURSIVE SeqProduct(_)
SeqProduct(s) == IF s = <<>> THEN 1 ELSE s[1] * SeqProduct(SubSeq(s, 2, Len(s)))

RECURSIVE SumOfLens(_)
\* the number of scalars in a sequence of rows
SumOfLens(rows) ==
    IF rows = <<>> THEN 0 ELSE Len(rows[1]) + SumOfLens(SubSeq(rows, 2, Len(rows)))

RECURSIVE Leaves3(_)
\* the number of scalars in a sequence of blocks
Leaves3(blocks) ==
    IF blocks = <<>> THEN 0
    ELSE SumOfLens(blocks[1]) + Leaves3(SubSeq(blocks, 2, Len(blocks)))

Range(s) == {s[i] : i \in 1..Len(s)}

Rect2(lit) == \A i \in 1..Len(lit) : Len(lit[i]) = Len(lit[1])

Rect3(lit) ==
    \A d \in 1..Len(lit) :
        /\ Len(lit[d]) = Len(lit[1])
        /\ \A r \in 1..Len(lit[d]) : Len(lit[d][r]) = Len(lit[1][1])

\* C1: a rectangular rank-2 literal of R rows of C columns is constructed
\* successfully with shape [R, C] and row-major data of length R*C: the
\* element at row i, column j is at flat index i*C + j.
C1_Rank2ShapeLaw ==
    (macro = "arr2" /\ Rect2(input)) =>
        LET R == Len(input)
            C == Len(input[1])
        IN /\ pc = "returned" /\ hasArray /\ panic = NoPanic
           /\ arrayShape = <<R, C>>
           /\ Len(arrayData) = R * C
           /\ \A i \in 0..(R - 1), j \in 0..(C - 1) :
                  arrayData[i * C + j + 1] = input[i + 1][j + 1]

\* the doc example's shape: 3 rows of 2 columns
C1_Witness ==
    /\ macro = "arr2" /\ Rect2(input)
    /\ Len(input) = 3 /\ Len(input[1]) = 2
    /\ hasArray /\ Len(arrayData) = 6

\* C2: a rectangular rank-3 literal of D blocks of R rows of C scalars is
\* constructed successfully with shape [D, R, C] and depth-first data: the
\* element [d][r][c] is at flat index (d*R + r)*C + c.
C2_Rank3ShapeLaw ==
    (macro = "arr3" /\ Rect3(input)) =>
        LET D == Len(input)
            R == Len(input[1])
            C == Len(input[1][1])
        IN /\ pc = "returned" /\ hasArray /\ panic = NoPanic
           /\ arrayShape = <<D, R, C>>
           /\ Len(arrayData) = D * R * C
           /\ \A d \in 0..(D - 1), r \in 0..(R - 1), c \in 0..(C - 1) :
                  arrayData[(d * R + r) * C + c + 1] = input[d + 1][r + 1][c + 1]

\* a rectangular literal whose row and column counts differ
C2_Witness ==
    /\ macro = "arr3" /\ Rect3(input)
    /\ Len(input) = 2 /\ Len(input[1]) = 1 /\ Len(input[1][1]) = 2
    /\ hasArray /\ Len(arrayData) = 4

\* C3: the rank-1 form yields the scalars verbatim, the shape [n], and an
\* Array in every case.
C3_Rank1RoundTrip ==
    macro = "arr1" =>
        /\ pc = "returned" /\ hasArray /\ panic = NoPanic
        /\ arrayData = input
        /\ arrayShape = <<Len(input)>>

C3_Witness ==
    /\ macro = "arr1" /\ hasArray
    /\ Len(input) >= 3
    /\ input[1] # input[2]

\* C4: zeros! with 1, 2 or 3 positive dimensions yields data of length
\* product(dims), every element the type's zero, the shape equal to the
\* dimensions in the given order, and Array::new's length check passes.
C4_ZeroFillSizeLaw ==
    (macro \in ZerosMacros /\ \A k \in 1..Len(input) : input[k] > 0) =>
        /\ pc = "returned" /\ hasArray /\ panic = NoPanic
        /\ newResult = "Ok"
        /\ Len(arrayData) = SeqProduct(input)
        /\ \A i \in 1..Len(arrayData) : arrayData[i] = 0
        /\ arrayShape = input

\* zeros!(ty, 3, 2): six zeros, shape [3, 2]
C4_Witness ==
    /\ macro = "zeros2" /\ input = <<3, 2>>
    /\ hasArray /\ arrayData = <<0, 0, 0, 0, 0, 0>>

\* C5: zeros! with 4 or more dimensions always panics with the
\* unsupported-dimensions message naming the number of dimensions; no data
\* buffer is allocated, Array::new is never called and no Array is returned.
C5_RankOverflowFails ==
    (pc # "idle" /\ macro \notin ArrMacros /\ Len(input) >= 4) =>
        /\ macro = "zerosN"
        /\ pc = "panicked"
        /\ panic = [msg |-> UnsupportedMsg, arg |-> Len(input)]
        /\ ~allocated /\ data = <<>>
        /\ newCalls = 0 /\ newResult = "none"
        /\ ~hasArray /\ arrayData = <<>> /\ arrayShape = <<>>

C5_Witness ==
    /\ macro = "zerosN" /\ pc = "panicked"
    /\ Len(input) = 5 /\ input[1] = 2 /\ panic.arg = 5

\* the flat data's length differs from the product of the inferred shape
Mismatch == Len(data) # SeqProduct(shape)

\* C6 (as stated): a length mismatch of a rank-2 or rank-3 literal reaches
\* the caller as a Shape-Mismatch error result, not as a panic.
C6_MismatchIsErrorResult ==
    (macro \in {"arr2", "arr3"} /\ Mismatch) =>
        /\ pc = "returned"
        /\ newResult = "ShapeMismatch"
        /\ panic = NoPanic

\* C6 (amended): on a length mismatch Array::new is called once and answers
\* ShapeMismatch; the macro unwraps that result, so the invocation panics
\* with the unwrap of the ShapeMismatch error and no Array is returned.
C6_MismatchPanics ==
    (macro \in {"arr2", "arr3"} /\ Mismatch) =>
        /\ newCalls = 1 /\ newResult = "ShapeMismatch"
        /\ pc = "panicked"
        /\ panic.msg = UnwrapMismatchMsg
        /\ ~hasArray /\ arrayData = <<>> /\ arrayShape = <<>>

\* arr![[1, 2], [3]]: three scalars against the shape [2, 2]
C6_Witness ==
    /\ macro = "arr2" /\ Len(input) = 2
    /\ Len(input[1]) = 2 /\ Len(input[2]) = 1
    /\ Mismatch /\ pc = "panicked"

\* C7: zeros! with 1, 2 or 3 dimensions of which one is 0 yields empty
\* data, the shape recording every dimension verbatim, and an Array.
C7_ZeroDimension ==
    (macro \in ZerosMacros /\ \E k \in 1..Len(input) : input[k] = 0) =>
        /\ pc = "returned" /\ hasArray /\ panic = NoPanic
        /\ data = <<>> /\ arrayData = <<>>
        /\ arrayShape = input

\* zeros!(ty, 2, 0, 3)
C7_Witness ==
    /\ macro = "zeros3" /\ input = <<2, 0, 3>>
    /\ hasArray /\ arrayShape = <<2, 0, 3>>

\* C8: an Array exists only after exactly one call of Array::new on the
\* expansion's (data, shape) pair that answered Ok, so every returned Array
\* has len(data) == product(shape); every invocation that returns yields an
\* Array, and Array::new is never called twice.
C8_SingleValidationGate ==
    /\ newCalls <= 1
    /\ pc = "returned" => hasArray
    /\ hasArray =>
        /\ macro \in ArrMacros \cup ZerosMacros
        /\ newCalls = 1 /\ newResult = "Ok"
        /\ arrayData = data /\ arrayShape = shape
        /\ Len(arrayData) = SeqProduct(arrayShape)

C8_Witness ==
    /\ hasArray /\ newCalls = 1
    /\ macro = "arr3" /\ Len(arrayData) = 8

\* C9: the rank-2 and rank-3 shapes come from the first element of each
\* level only, the flat data holds every leaf of every sibling, and a
\* literal is accepted exactly when its leaf count equals the product of
\* that shape: a jagged literal whose count matches is constructed with
\* that shape and without error.
C9_FirstElementShape ==
    /\ macro = "arr2" =>
        /\ shape = <<Len(input), Len(input[1])>>
        /\ Len(data) = SumOfLens(input)
        /\ \A i \in 1..Len(input) : Range(input[i]) \subseteq Range(data)
        /\ hasArray <=> (SumOfLens(input) = Len(input) * Len(input[1]))
        /\ hasArray => (arrayShape = shape /\ arrayData = data /\ panic = NoPanic)
    /\ macro = "arr3" =>
        /\ shape = <<Len(input), Len(input[1]), Len(input[1][1])>>
        /\ Len(data) = Leaves3(input)
        /\ \A d \in 1..Len(input) : \A r \in 1..Len(input[d]) :
               Range(input[d][r]) \subseteq Range(data)
        /\ hasArray <=>
               (Leaves3(input) = Len(input) * Len(input[1]) * Len(input[1][1]))
        /\ hasArray => (arrayShape = shape /\ arrayData = data /\ panic = NoPanic)

\* arr![[1, 2], [3], [4, 5, 6]]: jagged, six scalars, shape [3, 2]
C9_Witness ==
    /\ macro = "arr2" /\ ~Rect2(input)
    /\ Len(input) = 3 /\ Len(input[1]) = 2 /\ Len(input[2]) = 1 /\ Len(input[3]) = 3
    /\ hasArray /\ arrayShape = <<3, 2>> /\ Len(arrayData) = 6

\* C10: the shape derived by the rank-R form of arr! has exactly R entries,
\* each positive, so its conversion into the rank-R index never fails (the
\* expansion always reaches Array::new), jagged literals included.
C10_ShapeHasRankEntries ==
    (macro \in ArrMacros) =>
        LET R == CASE macro = "arr1" -> 1 [] macro = "arr2" -> 2 [] macro = "arr3" -> 3
        IN /\ Len(shape) = R
           /\ \A k \in 1..Len(shape) : shape[k] >= 1
           /\ panic.msg # UnwrapTryIntoMsg
           /\ newCalls = 1

\* a jagged rank-3 literal: arr![[[1, 2]], [[3], [4]]]
C10_Witness ==
    /\ macro = "arr3" /\ ~Rect3(input)
    /\ Len(shape) = 3 /\ newCalls = 1

====
